---- MODULE Spec2Model ----
(***************************************************************************)
(* Model of FormatOption::display_snippet (src/main/src/formatter.rs):     *)
(* the line scan that resolves a span's byte offsets to (line, col)        *)
(* positions, the gutter width, whitespace visualization, and the          *)
(* single-line / multi-line layouts written step by step to a fallible     *)
(* sink.  Strings are sequences of bytes; the glyphs U+240A and U+240D are *)
(* their three UTF-8 bytes, and slicing checks char boundaries as          *)
(* str indexing does.                                                      *)
(***************************************************************************)
EXTENDS Integers, Sequences, FiniteSets, TLC

\* Longest buffer tail that is enumerated.
MaxLen == 3

\* Number of empty lines ("\n") put in front of a tail to reach line 10.
MaxPad == 9

LF == "LF"

CR == "CR"

\* Bytes a buffer is made of (all single-byte characters).
Alphabet == {"a", LF, CR}

\* UTF-8 encoding of U+240A, the replacement for '\n'.
GlyphLF == <<"E2", "90", "8A">>

\* UTF-8 encoding of U+240D, the replacement for '\r'.
GlyphCR == <<"E2", "90", "8D">>

\* UTF-8 continuation bytes (10xxxxxx) that occur in the model.
IsContinuation(b) == b \in {"90", "8A", "8D"}

\* Option::None for start / end.
None == [line |-> -1, col |-> -1]

\* Value of an expression whose evaluation panics.
Bad == <<"PANIC">>

Pad(k) == [i \in 1..k |-> LF]

Tails == UNION {[1..n -> Alphabet] : n \in 0..MaxLen}

Buffers == {Pad(k) \o t : k \in {0, MaxPad}, t \in Tails}

VARIABLES buffer, spanStart, spanEnd, pc, iter, pos, start, end,
          index_digit, layout, start_line, end_line, step, log, result

vars == <<buffer, spanStart, spanEnd, pc, iter, pos, start, end,
          index_digit, layout, start_line, end_line, step, log, result>>

----------------------------------------------------------------------------
\* Pure helpers

RECURSIVE SplitLines(_, _)
\* Lines of s, cur being the bytes of the line in progress; a line ends
\* after its '\n', which it keeps; an unterminated last line is a line.
SplitLines(s, cur) ==
    IF s = <<>> THEN (IF cur = <<>> THEN <<>> ELSE <<cur>>)
    ELSE IF Head(s) = LF THEN <<Append(cur, LF)>> \o SplitLines(Tail(s), <<>>)
    ELSE SplitLines(Tail(s), Append(cur, Head(s)))

\* Span::lines() of the span covering the whole input.
Lines(s) == SplitLines(s, <<>>)

InputLines == Lines(buffer)

RECURSIVE Replace(_, _, _)
\* str::replace(from, to) for a one-byte pattern.
Replace(s, from, to) ==
    IF s = <<>> THEN <<>>
    ELSE (IF Head(s) = from THEN to ELSE <<Head(s)>>) \o Replace(Tail(s), from, to)

visualize_white_space(line) == Replace(Replace(line, LF, GlyphLF), CR, GlyphCR)

\* str::is_char_boundary
IsCharBoundary(s, i) ==
    \/ i = 0
    \/ i = Len(s)
    \/ (0 < i /\ i < Len(s) /\ ~IsContinuation(s[i + 1]))

\* &s[i..j]; Bad when the index expression panics.
Slice(s, i, j) ==
    IF 0 <= i /\ i <= j /\ j <= Len(s) /\ IsCharBoundary(s, i) /\ IsCharBoundary(s, j)
    THEN SubSeq(s, i + 1, j)
    ELSE Bad

\* Concatenation of format arguments; a panicking argument panics the whole.
Cat(a, b) == IF a = Bad \/ b = Bad THEN Bad ELSE a \o b

\* str::repeat; a negative count is a usize underflow.
Repeat(c, n) == IF n < 0 THEN Bad ELSE [i \in 1..n |-> c]

DigitChar(d) == <<"0", "1", "2", "3", "4", "5", "6", "7", "8", "9">>[d + 1]

RECURSIVE DecStr(_)
\* Display of a usize.
DecStr(n) == IF n < 10 THEN <<DigitChar(n)>> ELSE Append(DecStr(n \div 10), DigitChar(n % 10))

\* format!("{:w$}", n, w = w): right-aligned, never truncated.
FormatNumber(n, w) ==
    IF Len(DecStr(n)) >= w THEN DecStr(n) ELSE Repeat(" ", w - Len(DecStr(n))) \o DecStr(n)

RECURSIVE DigitLoop(_, _)
DigitLoop(digit, i) == IF i >= 10 THEN DigitLoop(digit + 1, i \div 10) ELSE digit

IndexDigit_mut(n) == 1

\* The index_digit block applied to end.line + 1.
IndexDigit(n) == DigitLoop(1, n)

AbsDiff(a, b) == IF a >= b THEN a - b ELSE b - a

StartFound_mut(p, len, s) == p + len + 1 >= s

\* Condition of the start scan.
StartFound(p, len, s) == p + len >= s

\* Condition of the end scan.
EndFound(p, len, e) == p + len >= e

NeedEllipsis_mut(sl, el) == AbsDiff(sl, el) >= 1

\* Guard of the ellipsis row.
NeedEllipsis(sl, el) == AbsDiff(sl, el) > 1

Marker_mut(col_start, col_end) == Repeat("^", col_end - col_start + 1)

\* Argument of the marker callback in the single-line layout.
Marker(col_start, col_end) == Repeat("^", col_end - col_start)

Try_mut(ok) == "continue"

\* The ? operator on the fmt::Result of a write or callback.
Try(ok) == IF ok THEN "continue" ELSE "return_err"

W(t) == [via |-> "write", text |-> t]

N(t) == [via |-> "number", text |-> t]

S(t) == [via |-> "span", text |-> t]

M(t) == [via |-> "marker", text |-> t]

\* Writes and callbacks of display_snippet_single_line, in order.
SingleOps(w, line, ps) ==
    << W(Repeat(" ", w) \o <<" ">>),
       N(<<"|">>),
       W(<<LF>>),
       N(FormatNumber(ps.line + 1, w)),
       W(<<" ">>),
       N(<<"|">>),
       W(Cat(<<" ">>, Slice(line, 0, ps.col_start))),
       S(Slice(line, ps.col_start, ps.col_end)),
       W(Slice(line, ps.col_end, Len(line))),
       W(<<LF>>),
       W(Repeat(" ", w) \o <<" ">>),
       N(<<"|">>),
       W(Cat(<<" ">>, Slice(line, 0, ps.col_start))),
       M(Marker(ps.col_start, ps.col_end)),
       W(<<LF>>) >>

\* Writes and callbacks of display_snippet_multi_line, in order.
MultiOps(w, sl, sp, el, ep) ==
    << W(Repeat(" ", w) \o <<" ">>),
       N(<<"|">>),
       W(Cat(<<" ">>, Slice(sl, 0, sp.col))),
       M(<<"v">>),
       W(<<LF>>),
       N(FormatNumber(sp.line + 1, w)),
       W(<<" ">>),
       N(<<"|">>),
       W(Cat(<<" ">>, Slice(sl, 0, sp.col))),
       S(Slice(sl, sp.col, Len(sl))),
       W(<<LF>>) >>
    \o (IF NeedEllipsis(sp.line, ep.line)
        THEN << W(Repeat(" ", w) \o <<" ">>),
                N(<<"|">>),
                W(<<" ", ".", ".", ".", LF>>) >>
        ELSE <<>>)
    \o << N(FormatNumber(ep.line + 1, w)),
          W(<<" ">>),
          N(<<"|">>),
          W(<<" ">>),
          S(Slice(el, 0, ep.col)),
          W(Cat(Slice(el, ep.col, Len(el)), <<LF>>)),
          W(Repeat(" ", w) \o <<" ">>),
          N(<<"|">>),
          W(Cat(<<" ">>, Slice(el, 0, ep.col - 1))),
          M(<<"^">>),
          W(<<LF>>) >>

\* lines().skip(start.line).take(end.line - start.line + 1)
SnippetLines(sp, ep) ==
    SubSeq(InputLines, sp.line + 1,
           IF ep.line + 1 <= Len(InputLines) THEN ep.line + 1 ELSE Len(InputLines))

Ops ==
    IF layout = "single"
    THEN SingleOps(index_digit, start_line,
                   [line |-> start.line, col_start |-> start.col, col_end |-> end.col])
    ELSE MultiOps(index_digit, start_line, start, end_line, end)

----------------------------------------------------------------------------
\* display_snippet as a state machine

Init ==
    \E b \in Buffers : \E s \in 0..Len(b) : \E e \in s..Len(b) :
        /\ buffer = b
        /\ spanStart = s
        /\ spanEnd = e
        /\ pc = "scan_start"
        /\ iter = 0
        /\ pos = 0
        /\ start = None
        /\ end = None
        /\ index_digit = 0
        /\ layout = "none"
        /\ start_line = <<>>
        /\ end_line = <<>>
        /\ step = 0
        /\ log = <<>>
        /\ result = "none"

\* One iteration of `while let Some((index, line)) = iter.peek()`.
ScanStart ==
    /\ pc = "scan_start"
    /\ IF iter >= Len(InputLines)
       THEN /\ pc' = "scan_end"
            /\ UNCHANGED <<start, pos, iter>>
       ELSE LET line == InputLines[iter + 1] IN
            IF StartFound(pos, Len(line), spanStart)
            THEN /\ start' = [line |-> iter, col |-> spanStart - pos]
                 /\ pc' = "scan_end"
                 /\ UNCHANGED <<pos, iter>>
            ELSE /\ pos' = pos + Len(line)
                 /\ iter' = iter + 1
                 /\ UNCHANGED <<start, pc>>
    /\ UNCHANGED <<buffer, spanStart, spanEnd, end, index_digit, layout,
                   start_line, end_line, step, log, result>>

\* One iteration of `for (index, line) in iter`.
ScanEnd ==
    /\ pc = "scan_end"
    /\ IF iter >= Len(InputLines)
       THEN /\ pc' = "unwrap"
            /\ UNCHANGED <<end, pos, iter>>
       ELSE LET line == InputLines[iter + 1] IN
            IF EndFound(pos, Len(line), spanEnd)
            THEN /\ end' = [line |-> iter, col |-> spanEnd - pos]
                 /\ iter' = iter + 1
                 /\ pc' = "unwrap"
                 /\ UNCHANGED pos
            ELSE /\ pos' = pos + Len(line)
                 /\ iter' = iter + 1
                 /\ UNCHANGED <<end, pc>>
    /\ UNCHANGED <<buffer, spanStart, spanEnd, start, index_digit, layout,
                   start_line, end_line, step, log, result>>

\* start.unwrap(); end.unwrap();
Unwrap ==
    /\ pc = "unwrap"
    /\ IF start = None \/ end = None
       THEN /\ result' = "Panic"
            /\ pc' = "done"
       ELSE /\ pc' = "layout"
            /\ UNCHANGED result
    /\ UNCHANGED <<buffer, spanStart, spanEnd, iter, pos, start, end, index_digit,
                   layout, start_line, end_line, step, log>>

\* The gutter width, the choice of layout and the visualized lines.
Layout ==
    /\ pc = "layout"
    /\ index_digit' = IndexDigit(end.line + 1)
    /\ LET lines == SnippetLines(start, end) IN
       IF lines = <<>>
       THEN /\ result' = "Panic"
            /\ pc' = "done"
            /\ UNCHANGED <<layout, start_line, end_line, step>>
       ELSE /\ layout' = IF start.line = end.line THEN "single" ELSE "multi"
            /\ start_line' = visualize_white_space(lines[1])
            /\ end_line' = IF start.line = end.line THEN <<>>
                           ELSE visualize_white_space(lines[Len(lines)])
            /\ step' = 1
            /\ pc' = "render"
            /\ UNCHANGED result
    /\ UNCHANGED <<buffer, spanStart, spanEnd, iter, pos, start, end, log>>

\* One write!/writeln! or callback of the chosen layout, followed by `?`.
RenderStep ==
    /\ pc = "render"
    /\ LET op == Ops[step] IN
       IF op.text = Bad
       THEN /\ result' = "Panic"
            /\ pc' = "done"
            /\ UNCHANGED <<log, step>>
       ELSE \E ok \in BOOLEAN :
            /\ log' = Append(log, [via |-> op.via, text |-> op.text, ok |-> ok])
            /\ IF Try(ok) = "continue"
               THEN IF step = Len(Ops)
                    THEN /\ result' = "Ok"
                         /\ pc' = "done"
                         /\ UNCHANGED step
                    ELSE /\ step' = step + 1
                         /\ UNCHANGED <<result, pc>>
               ELSE /\ result' = "Err"
                    /\ pc' = "done"
                    /\ UNCHANGED step
    /\ UNCHANGED <<buffer, spanStart, spanEnd, iter, pos, start, end, index_digit,
                   layout, start_line, end_line>>

Next == ScanStart \/ ScanEnd \/ Unwrap \/ Layout \/ RenderStep

Spec == Init /\ [][Next]_vars

----------------------------------------------------------------------------
\* Properties

Resolved == start # None /\ end # None

Scanned == pc \in {"unwrap", "layout", "render", "done"}

\* Offset in the buffer of the first byte of line l (0-based).
RECURSIVE LineStart(_)
LineStart(l) == IF l = 0 THEN 0 ELSE LineStart(l - 1) + Len(InputLines[l])

\* Number of decimal digits of n, by its defining inequality.
NumDigits(n) == CHOOSE d \in 1..6 : 10 ^ (d - 1) <= n /\ n < 10 ^ d

IsSpaces(t, n) == Len(t) = n /\ \A i \in 1..n : t[i] = " "

Indices(via) == {i \in 1..Len(log) : log[i].via = via}

\* Number of characters of a UTF-8 byte string.
CharCount(t) == Cardinality({i \in 1..Len(t) : ~IsContinuation(t[i])})

EllipsisText == <<" ", ".", ".", ".", LF>>

EllipsisAt == {i \in 1..Len(log) : log[i].via = "write" /\ log[i].text = EllipsisText}

\* C1: for every buffer and every in-bounds span, the finished line scan has
\* found both a start and an end position, and start.line <= end.line.
C1_ResolutionSucceeds ==
    Scanned => (start # None /\ end # None /\ start.line <= end.line)

\* C2: whenever the scan ends without a start or an end position,
\* display_snippet finishes with a reported error and never with a panic.
C2_UnresolvedIsReported ==
    (pc = "done" /\ ~Resolved) => result = "Err"

\* C3: a failed write or callback is propagated at once: it is the last step
\* taken, display_snippet returns the error, and an error is returned only so.
C3_FailurePropagates ==
    /\ \A i \in 1..Len(log) : ~log[i].ok => (i = Len(log) /\ pc = "done" /\ result = "Err")
    /\ result = "Err" => (Len(log) > 0 /\ ~log[Len(log)].ok)

C3_Witness == result = "Err" /\ Len(log) > 3

\* C4: visualization is one-for-one and keeps column alignment: the columns
\* resolved against the original line are valid slice positions of the
\* visualized line and select the visualized prefix, highlight and suffix, so
\* that no slice of the visualized line fails.
C4_ColumnsAlign ==
    (pc \in {"render", "done"} /\ layout # "none") =>
        LET sl == InputLines[start.line + 1]
            el == InputLines[end.line + 1]
        IN /\ CharCount(start_line) = Len(sl)
           /\ Slice(start_line, 0, start.col) = visualize_white_space(SubSeq(sl, 1, start.col))
           /\ layout = "single" =>
                /\ Slice(start_line, start.col, end.col)
                     = visualize_white_space(SubSeq(sl, start.col + 1, end.col))
                /\ Slice(start_line, end.col, Len(start_line))
                     = visualize_white_space(SubSeq(sl, end.col + 1, Len(sl)))
           /\ layout = "multi" =>
                /\ CharCount(end_line) = Len(el)
                /\ Slice(end_line, 0, end.col) = visualize_white_space(SubSeq(el, 1, end.col))
                /\ Slice(end_line, 0, end.col - 1)
                     = visualize_white_space(SubSeq(el, 1, end.col - 1))
           /\ result # "Panic"

\* C5: a non-empty span whose bytes all lie in one line L resolves to
\* start.line = end.line = L with start.col the offset inside L, so the
\* single-line layout is chosen and its numbered row shows L + 1.
C5_SpanInOneLine ==
    \A L \in 0..(Len(InputLines) - 1) :
        ( /\ Scanned
          /\ spanStart < spanEnd
          /\ LineStart(L) <= spanStart
          /\ spanEnd <= LineStart(L) + Len(InputLines[L + 1]) )
        => /\ start = [line |-> L, col |-> spanStart - LineStart(L)]
           /\ end.line = L
           /\ layout \in {"none", "single"}
           /\ result = "Ok" => log[4] = [via |-> "number",
                                         text |-> FormatNumber(L + 1, index_digit),
                                         ok |-> TRUE]

\* C6: a completed single-line layout calls the marker callback exactly once
\* with col_end - col_start carets, which is span.end - span.start.
C6_CaretCount ==
    (layout = "single" /\ result = "Ok") =>
        /\ Cardinality(Indices("marker")) = 1
        /\ \A i \in Indices("marker") :
             /\ Len(log[i].text) = end.col - start.col
             /\ Len(log[i].text) = spanEnd - spanStart
             /\ \A k \in 1..Len(log[i].text) : log[i].text[k] = "^"

C6_Witness == layout = "single" /\ result = "Ok" /\ spanEnd - spanStart >= 2

\* C7: the ellipsis row is written at most once, only in the multi-line
\* layout with end.line - start.line > 1, after the start-line row and before
\* the end-line row; a completed multi-line layout with that gap has it.
C7_EllipsisRow ==
    /\ Cardinality(EllipsisAt) <= 1
    /\ \A i \in EllipsisAt :
         /\ layout = "multi"
         /\ end.line - start.line > 1
         /\ log[i - 1].via = "number" /\ log[i - 1].text = <<"|">>
         /\ IsSpaces(log[i - 2].text, index_digit + 1)
         /\ Cardinality({k \in Indices("span") : k < i}) = 1
         /\ Cardinality({k \in Indices("span") : k > i}) <= 1
         /\ result = "Ok" => Cardinality({k \in Indices("span") : k > i}) = 1
    /\ (result = "Ok" /\ layout = "multi" /\ end.line - start.line > 1) => EllipsisAt # {}

C7_Witness == result = "Ok" /\ layout = "multi" /\ EllipsisAt # {} /\ log[Len(log)].ok

\* C8: the gutter width is the number of decimal digits of end.line + 1, and
\* every row starts with it: a spacer of that many spaces, or the line number
\* (start.line + 1 or end.line + 1) left-padded with spaces to that length.
C8_GutterWidth ==
    (pc \in {"render", "done"} /\ layout # "none") =>
        /\ index_digit = NumDigits(end.line + 1)
        /\ \A i \in 1..Len(log) :
             (i = 1 \/ (log[i - 1].via = "write" /\ log[i - 1].text # <<>>
                        /\ log[i - 1].text[Len(log[i - 1].text)] = LF))
             => \/ log[i].via = "write" /\ IsSpaces(log[i].text, index_digit + 1)
                \/ /\ log[i].via = "number"
                   /\ Len(log[i].text) = index_digit
                   /\ \E n \in {start.line + 1, end.line + 1} :
                        LET d == NumDigits(n) IN
                        /\ IsSpaces(SubSeq(log[i].text, 1, index_digit - d), index_digit - d)
                        /\ SubSeq(log[i].text, index_digit - d + 1, index_digit) = DecStr(n)

C8_Witness ==
    /\ result = "Ok"
    /\ index_digit = 2
    /\ \E i \in Indices("number") : log[i].text = <<" ", "1">>

\* C9: the caret row of the single-line layout is the gutter spaces, the
\* gutter callback on "|", then col_start spaces and the carets.
C9_CaretRowSpacing ==
    (layout = "single" /\ result = "Ok") =>
        \A i \in Indices("marker") :
            /\ log[i - 1].via = "write"
            /\ IsSpaces(log[i - 1].text, 1 + start.col)
            /\ log[i - 2] = [via |-> "number", text |-> <<"|">>, ok |-> TRUE]
            /\ log[i - 3].via = "write"
            /\ IsSpaces(log[i - 3].text, index_digit + 1)

\* C10: resolved columns stay inside their lines, start.col <= end.col on a
\* shared line, and end.col >= 1 whenever the lines differ.
C10_ColumnsInLine ==
    /\ start # None =>
         /\ 0 <= start.col
         /\ start.col <= Len(InputLines[start.line + 1])
    /\ end # None =>
         /\ 0 <= end.col
         /\ end.col <= Len(InputLines[end.line + 1])
    /\ Resolved =>
         /\ start.line = end.line => start.col <= end.col
         /\ start.line # end.line => end.col >= 1

C10_Witness ==
    /\ Resolved
    /\ start.line # end.line
    /\ start.col = Len(InputLines[start.line + 1])
    /\ end.col = Len(InputLines[end.line + 1])

====
